---- MODULE Spec2Model ----
(***************************************************************************)
(* Model of texas_bar_profile.py: the TexasBarProfile session (retrieve,   *)
(* parse, extract), parse_address, the sqlite store (create_table,         *)
(* insert_attorney) and the main loop that drives them.                    *)
(*                                                                         *)
(* Text is abstract: a field of a listing entry is either present, with a  *)
(* fixed text, or absent.  Address text is kept as a sequence of           *)
(* characters because parse_address splits and strips it.                  *)
(***************************************************************************)
EXTENDS Integers, Sequences, FiniteSets, TLC

(***************************************************************************)
(* Program constants.                                                      *)
(***************************************************************************)
PAUSE_MAX == 25
PAUSE_SECONDS == 3
PAGE_MAX == 200
RETRY_SECONDS == 5
DALLAS_COUNTY == "57"

(***************************************************************************)
(* Bounds of the model.                                                    *)
(***************************************************************************)
\* Listing entries the directory holds in all, over its freely chosen pages.
MaxEntries == 3
\* Consecutive transport failures of one request.
MaxAttempts == 1
\* Entries of the directory that lack an element.
MaxLacking == 1
\* Highest page ordinal a caller of SessionSpec asks for.
MaxPage == 2
\* Longest text of a field of an address block given to AddrSpec.
MaxField == 2

\* Python's None.
None == "<None>"
\* None in a column that holds address text (a sequence of characters).
NoneText == <<"<None>">>

(***************************************************************************)
(* Text as sequences of characters, for parse_address.                     *)
(***************************************************************************)
NBSP == "nbsp"
Whitespace == {" ", NBSP, "\n"}

RECURSIVE lstrip(_)
lstrip(s) ==
    IF s # <<>> /\ Head(s) \in Whitespace THEN lstrip(Tail(s)) ELSE s

RECURSIVE rstrip(_)
rstrip(s) ==
    IF s # <<>> /\ s[Len(s)] \in Whitespace
    THEN rstrip(SubSeq(s, 1, Len(s) - 1))
    ELSE s

\* str.strip()
strip(s) == rstrip(lstrip(s))

\* str.split(sep) for a one-character separator: every piece, in order.
RECURSIVE split(_, _)
split(s, sep) ==
    IF \E i \in 1..Len(s) : s[i] = sep
    THEN LET i == CHOOSE j \in 1..Len(s) :
                      s[j] = sep /\ \A k \in 1..(j - 1) : s[k] # sep
         IN  <<SubSeq(s, 1, i - 1)>> \o split(SubSeq(s, i + 1, Len(s)), sep)
    ELSE <<s>>

\* An address element as the markup parser exposes it: the text of each
\* child node (a <br> has the text ''), and the text nodes alone.
AddressTag(street, csz) ==
    [children |-> <<street, <<>>, csz>>, strings |-> <<street, csz>>]

SampleAddress ==
    AddressTag(<<"1", " ", "M">>, <<"D", ",", " ", "T", "X", NBSP, "7">>)

parse_address(address) ==
    LET parts0 == [i \in 1..Len(address.children) |->
                        strip(address.children[i])]
        parts1 == IF parts0[2] = <<>>
                  THEN [i \in 1..Len(address.strings) |->
                            strip(address.strings[i])]
                  ELSE parts0
        street == parts1[1]
        parts2 == split(parts1[2], ",")
        city   == parts2[1]
        parts3 == IF Len(parts2) > 1 THEN split(parts2[2], NBSP) ELSE <<>>
        state  == IF Len(parts2) > 1 THEN parts3[1] ELSE <<>>
        zip    == IF Len(parts2) > 1 /\ Len(parts3) > 1 THEN parts3[2] ELSE <<>>
    IN  [isdict |-> TRUE, street |-> street, city |-> city,
         state |-> state, zip |-> zip]

\* Every entry of the model's directory that has an address element has
\* this one; extract gets its parse from parse_address (line 168).
SampleParsed == parse_address(SampleAddress)

\* parsed before parse_address has returned.
NotParsed == [isdict |-> FALSE]

\* The characters of the fields of an address block.
Letters == {"a", "b"}

\* The texts of a field: letters and inner spaces, at most n characters.
Texts(n) ==
    {t \in UNION {[1..k -> Letters \cup {" "}] : k \in 1..n} :
        t[1] # " " /\ t[Len(t)] # " "}

\* The ways the markup lays a block out: one <br> between the lines, two,
\* or one with the lines indented on lines of their own.
Layouts == {"br", "brbr", "indented"}

\* A two-line address block: the first line is street; the second is
\* "city, state<NBSP>zip" when comma, and city alone otherwise.
AddressBlocks ==
    [street : Texts(MaxField), city : Texts(MaxField),
     state : Texts(MaxField), zip : Texts(MaxField),
     comma : {TRUE}, layout : Layouts]
    \cup
    [street : Texts(MaxField), city : Texts(MaxField),
     state : {<<>>}, zip : {<<>>}, comma : {FALSE}, layout : Layouts]

SecondLine(block) ==
    IF block.comma
    THEN block.city \o <<",", " ">> \o block.state \o <<NBSP>> \o block.zip
    ELSE block.city

\* The address element of a block.
TagOf(block) ==
    LET l1 == block.street
        l2 == SecondLine(block)
    IN  CASE block.layout = "br" -> AddressTag(l1, l2)
          [] block.layout = "brbr" ->
                [children |-> <<l1, <<>>, <<>>, l2>>, strings |-> <<l1, l2>>]
          [] block.layout = "indented" ->
                AddressTag(<<"\n", " ">> \o l1 \o <<"\n">>,
                           <<"\n", " ">> \o l2 \o <<"\n">>)

\* The block of SampleAddress.
SampleBlock ==
    [street |-> <<"1", " ", "M">>, city |-> <<"D">>, state |-> <<"T", "X">>,
     zip |-> <<"7">>, comma |-> TRUE, layout |-> "br"]

(***************************************************************************)
(* The directory: listing pages of entries, and a detail page per entry.   *)
(***************************************************************************)
\* The elements extract looks for in a listing entry.
Elements ==
    {"honorific-prefix", "given-name", "additional-name", "family-name",
     "honorific-suffix", "h5", "address", "tel", "detail-link"}

\* Bar card numbers that detail pages show, in the order in which the
\* directory first shows them (they are opaque: a directory that shows
\* them in another order behaves alike).
BarOrder == <<"B1", "B2", "B3">>
Bars == {BarOrder[i] : i \in 1..Len(BarOrder)}
BarIndex(b) == CHOOSE i \in 1..Len(BarOrder) : BarOrder[i] = b

\* The sets of elements an entry of the model's directory may lack.
Shapes ==
    {{}, {"additional-name", "address", "tel"},
     {"honorific-prefix"}, {"family-name"}, {"detail-link"}}

\* A listing entry: the elements it lacks and the bar card number on the
\* detail page its link leads to.
Entries == [missing : Shapes, bar : Bars]

\* A page filled with PAUSE_MAX or PAUSE_MAX + 1 copies of one entry.
BulkPages ==
    {[i \in 1..n |-> e] : n \in {PAUSE_MAX, PAUSE_MAX + 1}, e \in Entries}

\* The entries left for the pages after those of d (the pages served so
\* far, page p at d[p + 1]); a bulk page leaves room for one more entry.
RECURSIVE Remaining(_)
Remaining(d) ==
    IF Len(d) = 0 THEN MaxEntries
    ELSE LET last == d[Len(d)]
             r    == Remaining(SubSeq(d, 1, Len(d) - 1))
         IN  IF Len(last) >= PAUSE_MAX THEN 1 ELSE r - Len(last)

\* The entries of a page that lack an element, and those of the pages d.
RECURSIVE LackingIn(_)
LackingIn(entries) ==
    IF Len(entries) = 0 THEN 0
    ELSE (IF Head(entries).missing = {} THEN 0 ELSE 1)
             + LackingIn(Tail(entries))

RECURSIVE Lacking(_)
Lacking(d) ==
    IF Len(d) = 0 THEN 0 ELSE LackingIn(Head(d)) + Lacking(Tail(d))

\* The bar card numbers of the entries of the pages d, in directory order.
RECURSIVE BarsInOrder(_)
BarsInOrder(d) ==
    IF Len(d) = 0 THEN <<>>
    ELSE [i \in 1..Len(Head(d)) |-> Head(d)[i].bar] \o BarsInOrder(Tail(d))

\* bs shows the bar card numbers in the order of BarOrder.
InBarOrder(bs) ==
    \A i \in 1..Len(bs) :
        \A k \in 1..(BarIndex(bs[i]) - 1) :
            \E j \in 1..(i - 1) : BarIndex(bs[j]) = k

\* content is a content the server may give the page after those of d when
\* it is first fetched: any entries within the bounds or, for page 0, a bulk
\* page.
PageChoice(d, content) ==
    /\ \/ \E n \in 0..Remaining(d) : content \in [1..n -> Entries]
       \/ Len(d) = 0 /\ content \in BulkPages
    /\ Lacking(d) + LackingIn(content) <= MaxLacking
    /\ InBarOrder(BarsInOrder(Append(d, content)))

\* Fixed texts of the elements of an entry (the model varies presence only).
GivenNames(lawyer) ==
    IF "given-name" \in lawyer.missing THEN <<>> ELSE <<<<"John", "Q">>>>

PrefixText == "Mr."
FamilyText == "Doe"
SuffixText == "Jr."
FirmText == "Firm"
AdditionalText == "Johnny"
TelText == "555"
\* The href of the entry's link, and the detail page behind it.
DetailUrl(lawyer) == <<"/lawyer", lawyer.bar>>
DetailPage(url) ==
    [bar_number |-> url[2], license_date |-> "05/01/2000", areas |-> "Family"]

(***************************************************************************)
(* TexasBarProfile.__init__ and the parameter part of retrieve.            *)
(***************************************************************************)
InitData ==
    [PPlCityName |-> "", County |-> "", State |-> "", Zip |-> "75093",
     Name |-> "", CompanyName |-> "", BarCardNumber |-> "",
     Submitted |-> "1", ShowPrinter |-> "1", Find |-> "0"]

\* d with d[k] = v, the key added when new (self.data[k] = v).
Put(d, k, v) ==
    [x \in (DOMAIN d) \cup {k} |-> IF x = k THEN v ELSE d[x]]

RECURSIVE PutAll(_, _)
PutAll(d, kvs) ==
    IF Len(kvs) = 0 THEN d
    ELSE PutAll(Put(d, kvs[1][1], kvs[1][2]), Tail(kvs))

\* The fields retrieve sets on every call.
QueryFields(q) ==
    << <<"PracticeArea", "42,25,47,52,40,54">>, <<"PPlCityName", q.city>>,
       <<"County", q.county>>, <<"State", q.state>>, <<"Zip", q.zip_code>>,
       <<"Name", q.name>>, <<"CompanyName", q.company>>,
       <<"BarCardNumber", q.barcard>>, <<"ShowPrinter", "1">>,
       <<"Submitted", "1">>, <<"Find", "0">> >>

\* The fields retrieve sets when page > 0.
PageFields(page) ==
    << <<"SortName", "">>, <<"FirstName", "">>, <<"Name", "">>,
       <<"LastName", "">>, <<"InformalName", "">>, <<"Region", "">>,
       <<"Country", "">>, <<"FilterName", "">>, <<"ShowOnlyTypes", "">>,
       <<"BarDistrict", "">>, <<"TYLADistrict", "">>, <<"Start", "">>,
       <<"MaxNumber", PAGE_MAX>>, <<"Page", page * PAGE_MAX + 1>>,
       <<"Prev", (page - 1) * PAGE_MAX + 1>>,
       <<"Next", page * PAGE_MAX + 1>>, <<"ButtonName", "Page">> >>

\* self.data after the assignments of retrieve(q), from self.data = d.
retrieve_params(d, q) ==
    LET d1 == PutAll(d, QueryFields(q))
    IN  IF q.page > 0 THEN PutAll(d1, PageFields(q.page)) ELSE d1

\* The arguments of retrieve: main passes the county and, after page 0,
\* the page.
Query(county, page) ==
    [city |-> "", county |-> county, state |-> "", zip_code |-> "",
     name |-> "", company |-> "", barcard |-> "", page |-> page]

\* The arguments a caller of the session may pass.
Queries ==
    [city : {"", "Dallas"}, county : {"", DALLAS_COUNTY}, state : {""},
     zip_code : {"", "75093"}, name : {"", "Doe"},
     company : {"", "KoonsFuller"},
     barcard : {""}, page : 0..MaxPage]

(***************************************************************************)
(* extract: one listing entry to one attorney dict, or an exception.       *)
(***************************************************************************)
\* Line 175: subscripting the None that find returns raises TypeError.
LinkRaises(lawyer) == "detail-link" \in lawyer.missing

\* Lines 201-215: .text of the None that find returned raises
\* AttributeError; the dict display is evaluated top to bottom.
BuildRaises(lawyer) ==
    IF "honorific-prefix" \in lawyer.missing THEN "AttributeError: prefix"
    ELSE IF "family-name" \in lawyer.missing THEN "AttributeError: lname"
    ELSE IF "honorific-suffix" \in lawyer.missing THEN "AttributeError: suffix"
    ELSE IF "h5" \in lawyer.missing THEN "AttributeError: firm"
    ELSE None

\* Lines 142-172 and 184-215: the attorney dict of an entry, given the
\* detail page that was fetched for it.
Attorney(lawyer, detail) ==
    LET gnames == GivenNames(lawyer)
        fname0 == IF Len(gnames) > 0 THEN gnames[1] ELSE <<>>
        fname  == IF Len(gnames) <= 1 /\ Len(fname0) > 1
                  THEN <<fname0[1]>> ELSE fname0
        mname  == IF Len(gnames) > 1 THEN gnames[2]
                  ELSE IF Len(fname0) > 1 THEN Tail(fname0) ELSE <<>>
    IN  [bar_number     |-> detail.bar_number,
         license_date   |-> detail.license_date,
         prefix         |-> PrefixText,
         fname          |-> fname,
         mname          |-> mname,
         lname          |-> FamilyText,
         suffix         |-> SuffixText,
         firm           |-> FirmText,
         address        |-> IF "address" \in lawyer.missing
                            THEN [isdict |-> FALSE]
                            ELSE SampleParsed,
         familiar_name  |-> IF "additional-name" \in lawyer.missing
                            THEN "" ELSE AdditionalText,
         telephone      |-> IF "tel" \in lawyer.missing THEN "" ELSE TelText,
         detail_url     |-> DetailUrl(lawyer),
         practice_areas |-> detail.areas]

(***************************************************************************)
(* The store: the attorneys table of TexasBarProfile.db.                   *)
(***************************************************************************)
NoTable == [table |-> FALSE, index |-> FALSE, rows |-> <<>>]

\* create_table without the unique index on bar_number.
create_table_no_index(d) == [table |-> TRUE, index |-> FALSE, rows |-> d.rows]

\* CREATE TABLE IF NOT EXISTS, CREATE UNIQUE INDEX IF NOT EXISTS.
create_table(d) == [table |-> TRUE, index |-> TRUE, rows |-> d.rows]

\* The row insert_attorney binds to the statement.
Row(attorney, page) ==
    LET a == attorney.address
    IN  [bar_number     |-> attorney.bar_number,
         license_date   |-> attorney.license_date,
         prefix         |-> attorney.prefix,
         fname          |-> attorney.fname,
         mname          |-> attorney.mname,
         lname          |-> attorney.lname,
         suffix         |-> attorney.suffix,
         firm           |-> attorney.firm,
         street         |-> IF a.isdict THEN a.street ELSE NoneText,
         city           |-> IF a.isdict THEN a.city ELSE NoneText,
         state          |-> IF a.isdict THEN a.state ELSE NoneText,
         zip            |-> IF a.isdict THEN a.zip ELSE NoneText,
         familiar_name  |-> attorney.familiar_name,
         telephone      |-> attorney.telephone,
         detail_url     |-> attorney.detail_url,
         practice_areas |-> attorney.practice_areas,
         page           |-> page,
         county         |-> "Dallas"]

\* INSERT OR REPLACE: the row of the call takes the place of the row held.
insert_attorney_replace(d, attorney, page) ==
    LET row  == Row(attorney, page)
        keep == SelectSeq(d.rows, LAMBDA r : r.bar_number # row.bar_number)
    IN  [d EXCEPT !.rows = Append(keep, row)]

\* INSERT OR IGNORE: the row is dropped when the unique index on
\* bar_number already holds its bar_number, and appended otherwise.
insert_attorney(d, attorney, page) ==
    LET row == Row(attorney, page)
    IN  IF d.index /\ \E i \in 1..Len(d.rows) :
                          d.rows[i].bar_number = row.bar_number
        THEN d
        ELSE [d EXCEPT !.rows = Append(@, row)]

(***************************************************************************)
(* State.                                                                  *)
(***************************************************************************)
VARIABLES
    db,             \* the attorneys table: [table, index, rows]
    dir,            \* the directory as served so far: page p is dir[p + 1]
    pc,             \* where main is
    page,           \* main: page
    count,          \* main: count
    in_try,         \* main: control is inside the try block
    exc,            \* the exception that ended the run, or None
    data,           \* searcher.data
    lastq,          \* the arguments of the last retrieve call
    sent,           \* the form data of the last request the server answered
    attempts,       \* failed attempts of the last request made
    slept,          \* seconds the last step slept
    lawyers,        \* extract: lawyers
    idx,            \* extract: entries of lawyers already yielded
    pause_counter,  \* extract: pause_counter
    batch,          \* the attorneys extract has yielded / main: batch
    ins,            \* main: attorneys of batch already inserted
    nlist,          \* listing responses received in this run
    ndetail,        \* detail responses received in this run
    npause,         \* throttle pauses taken in this run
    rows0,          \* rows the table held when this run started
    address_tag,    \* the address block handed to parse_address
    parsed          \* what parse_address returned for it

vars ==
    <<db, dir, pc, page, count, in_try, exc, data, lastq, sent, attempts,
      slept, lawyers, idx, pause_counter, batch, ins, nlist, ndetail, npause,
      rows0, address_tag, parsed>>

\* The database file does not exist, no page has been served, and the
\* process has not run main yet.
Init ==
    /\ db = NoTable
    /\ dir = <<>>
    /\ rows0 = 0
    /\ pc = "Start"
    /\ page = 0
    /\ count = 0
    /\ in_try = FALSE
    /\ exc = None
    /\ data = InitData
    /\ lastq = Query("", 0)
    /\ sent = InitData
    /\ attempts = 0
    /\ slept = 0
    /\ lawyers = <<>>
    /\ idx = 0
    /\ pause_counter = 0
    /\ batch = <<>>
    /\ ins = 0
    /\ nlist = 0
    /\ ndetail = 0
    /\ npause = 0
    /\ address_tag = SampleBlock
    /\ parsed = NotParsed

Terminal == {"Done", "Failed", "Uncaught"}

\* An exception leaves extract and parse; main catches it inside its try
\* block only (lines 328-338).
Raise(e) ==
    /\ pc' = IF in_try THEN "Failed" ELSE "Uncaught"
    /\ exc' = e

\* main resuming after the last page that the table holds a row of.
main_start_after_stored ==
    /\ pc = "Start"
    /\ db' = create_table(db)
    /\ page' = IF Len(db.rows) = 0 THEN 0
               ELSE 1 + CHOOSE m \in {db.rows[i].page : i \in 1..Len(db.rows)} :
                            \A i \in 1..Len(db.rows) : db.rows[i].page <= m
    /\ lastq' = Query(DALLAS_COUNTY, page')
    /\ data' = retrieve_params(InitData, lastq')
    /\ pc' = "post"
    /\ attempts' = 0
    /\ slept' = 0
    /\ UNCHANGED <<dir, count, in_try, exc, sent, lawyers, idx,
                   pause_counter, batch, ins, nlist, ndetail, npause,
                   rows0, address_tag, parsed>>

(***************************************************************************)
(* main, lines 318-326: create_table, a new session, the request for page  *)
(* 0.                                                                      *)
(***************************************************************************)
main_start ==
    /\ pc = "Start"
    /\ db' = create_table(db)
    /\ lastq' = Query(DALLAS_COUNTY, 0)
    /\ data' = retrieve_params(InitData, lastq')
    /\ pc' = "post"
    /\ attempts' = 0
    /\ slept' = 0
    /\ UNCHANGED <<dir, page, count, in_try, exc, sent, lawyers, idx,
                   pause_counter, batch, ins, nlist, ndetail, npause,
                   rows0, address_tag, parsed>>

(***************************************************************************)
(* retrieve, lines 99-108: the request is repeated until it is answered.   *)
(***************************************************************************)
retrieve_post_fail ==
    /\ pc = "post"
    /\ attempts < MaxAttempts
    /\ attempts' = attempts + 1
    /\ slept' = RETRY_SECONDS
    /\ UNCHANGED <<db, dir, pc, page, count, in_try, exc, data, lastq, sent,
                   lawyers, idx, pause_counter, batch, ins, nlist, ndetail,
                   npause,
                   rows0, address_tag, parsed>>

\* The answer, and parse up to the first iteration of extract (lines
\* 120-130).  A page is given its content when it is first served.
retrieve_post_ok ==
    /\ pc = "post"
    /\ IF page < Len(dir)
       THEN lawyers' = dir[page + 1] /\ dir' = dir
       ELSE /\ PageChoice(dir, lawyers')
            /\ dir' = Append(dir, lawyers')
    /\ sent' = data
    /\ nlist' = nlist + 1
    /\ idx' = 0
    /\ pause_counter' = 0
    /\ batch' = <<>>
    /\ slept' = 0
    /\ pc' = "extract"
    /\ UNCHANGED <<db, page, count, in_try, exc, data, lastq, attempts, ins,
                   ndetail, npause,
                   rows0, address_tag, parsed>>

(***************************************************************************)
(* extract, lines 133-175: the throttle and the listing fields of the next *)
(* entry.                                                                  *)
(***************************************************************************)
extract_next ==
    /\ pc = "extract"
    /\ idx < Len(lawyers)
    /\ IF pause_counter + 1 > PAUSE_MAX
       THEN /\ pause_counter' = 0
            /\ npause' = npause + 1
            /\ slept' = PAUSE_SECONDS
       ELSE /\ pause_counter' = pause_counter + 1
            /\ npause' = npause
            /\ slept' = 0
    /\ IF LinkRaises(lawyers[idx + 1])
       THEN Raise("TypeError: detail_url")
       ELSE pc' = "get" /\ exc' = exc
    /\ attempts' = 0
    /\ UNCHANGED <<db, dir, page, count, in_try, data, lastq, sent, lawyers,
                   idx, batch, ins, nlist, ndetail,
                   rows0, address_tag, parsed>>

\* A failed detail request that raises instead of being repeated.
extract_get_fail_raises ==
    /\ pc = "get"
    /\ attempts < MaxAttempts
    /\ attempts' = attempts + 1
    /\ slept' = 0
    /\ Raise("ConnectionError")
    /\ UNCHANGED <<db, dir, page, count, in_try, data, lastq, sent, lawyers,
                   idx, pause_counter, batch, ins, nlist, ndetail, npause,
                   rows0, address_tag, parsed>>

\* Lines 176-183: the detail request is repeated until it is answered.
extract_get_fail ==
    /\ pc = "get"
    /\ attempts < MaxAttempts
    /\ attempts' = attempts + 1
    /\ slept' = RETRY_SECONDS
    /\ UNCHANGED <<db, dir, pc, page, count, in_try, exc, data, lastq, sent,
                   lawyers, idx, pause_counter, batch, ins, nlist, ndetail,
                   npause,
                   rows0, address_tag, parsed>>

\* Lines 179-225: the answer, the detail fields, the attorney dict, yield.
extract_get_ok ==
    /\ pc = "get"
    /\ ndetail' = ndetail + 1
    /\ slept' = 0
    /\ LET lawyer == lawyers[idx + 1]
           detail == DetailPage(DetailUrl(lawyer))
       IN  IF BuildRaises(lawyer) # None
           THEN /\ Raise(BuildRaises(lawyer))
                /\ UNCHANGED <<batch, idx>>
           ELSE /\ batch' = Append(batch, Attorney(lawyer, detail))
                /\ idx' = idx + 1
                /\ pc' = "extract"
                /\ exc' = exc
    /\ UNCHANGED <<db, dir, page, count, in_try, data, lastq, sent, attempts,
                   lawyers, pause_counter, ins, nlist, npause,
                   rows0, address_tag, parsed>>

(***************************************************************************)
(* main, lines 327-336.                                                    *)
(***************************************************************************)
\* main going on to the next page whatever the batch holds.
main_while_no_stop ==
    /\ pc = "extract"
    /\ idx = Len(lawyers)
    /\ pc' = "insert"
    /\ in_try' = TRUE
    /\ count' = count + Len(batch)
    /\ ins' = 0
    /\ slept' = 0
    /\ UNCHANGED <<db, dir, page, exc, data, lastq, sent, attempts, lawyers,
                   idx, pause_counter, batch, nlist, ndetail, npause,
                   rows0, address_tag, parsed>>

\* extract is exhausted, parse returns the batch, main tests it (line 329).
main_while ==
    /\ pc = "extract"
    /\ idx = Len(lawyers)
    /\ IF Len(batch) > 0
       THEN /\ pc' = "insert"
            /\ in_try' = TRUE
            /\ count' = count + Len(batch)
       ELSE /\ pc' = "Done"
            /\ UNCHANGED <<in_try, count>>
    /\ ins' = 0
    /\ slept' = 0
    /\ UNCHANGED <<db, dir, page, exc, data, lastq, sent, attempts, lawyers,
                   idx, pause_counter, batch, nlist, ndetail, npause,
                   rows0, address_tag, parsed>>

\* Line 333, one attorney of the batch.
main_insert ==
    /\ pc = "insert"
    /\ ins < Len(batch)
    /\ db' = insert_attorney(db, batch[ins + 1], page)
    /\ ins' = ins + 1
    /\ slept' = 0
    /\ UNCHANGED <<dir, pc, page, count, in_try, exc, data, lastq, sent,
                   attempts, lawyers, idx, pause_counter, batch, nlist,
                   ndetail, npause,
                   rows0, address_tag, parsed>>

\* Line 333 when sqlite raises (the database is locked, the disk is full):
\* line 337 catches it.
main_insert_raises ==
    /\ pc = "insert"
    /\ ins < Len(batch)
    /\ Raise("sqlite3.Error")
    /\ slept' = 0
    /\ UNCHANGED <<db, dir, page, count, in_try, data, lastq, sent, attempts,
                   lawyers, idx, pause_counter, batch, ins, nlist, ndetail,
                   npause,
                   rows0, address_tag, parsed>>

\* Lines 334-335: the next page is asked for.
main_next_page ==
    /\ pc = "insert"
    /\ ins = Len(batch)
    /\ page' = page + 1
    /\ lastq' = Query(DALLAS_COUNTY, page')
    /\ data' = retrieve_params(data, lastq')
    /\ pc' = "post"
    /\ attempts' = 0
    /\ slept' = 0
    /\ UNCHANGED <<db, dir, count, in_try, exc, sent, lawyers, idx,
                   pause_counter, batch, ins, nlist, ndetail, npause,
                   rows0, address_tag, parsed>>

(***************************************************************************)
(* The process ends (it finished, or it was stopped at any point) and the  *)
(* script is run again: a new process over the same database file and the  *)
(* same directory.                                                         *)
(***************************************************************************)
Rerun ==
    /\ pc # "Start"
    /\ rows0' = Len(db.rows)
    /\ pc' = "Start"
    /\ page' = 0
    /\ count' = 0
    /\ in_try' = FALSE
    /\ exc' = None
    /\ data' = InitData
    /\ lastq' = Query("", 0)
    /\ sent' = InitData
    /\ attempts' = 0
    /\ slept' = 0
    /\ lawyers' = <<>>
    /\ idx' = 0
    /\ pause_counter' = 0
    /\ batch' = <<>>
    /\ ins' = 0
    /\ nlist' = 0
    /\ ndetail' = 0
    /\ npause' = 0
    /\ UNCHANGED <<db, dir, address_tag, parsed>>

Next ==
    \/ main_start
    \/ retrieve_post_fail
    \/ retrieve_post_ok
    \/ extract_next
    \/ extract_get_fail
    \/ extract_get_ok
    \/ main_while
    \/ main_insert
    \/ main_insert_raises
    \/ main_next_page
    \/ Rerun

Spec == Init /\ [][Next]_vars

\* One execution of the script, from the start of main to its end.
RunNext ==
    \/ main_start
    \/ retrieve_post_fail
    \/ retrieve_post_ok
    \/ extract_next
    \/ extract_get_fail
    \/ extract_get_ok
    \/ main_while
    \/ main_insert
    \/ main_insert_raises
    \/ main_next_page

\* One execution over a transport that answers a request that is repeated
\* for ever.
FairSpec ==
    /\ Init
    /\ [][RunNext]_vars
    /\ WF_vars(retrieve_post_ok)
    /\ WF_vars(extract_get_ok)

(***************************************************************************)
(* The session used on its own: retrieve called with any arguments, in any *)
(* order (lines 50-108, the request answered).                             *)
(***************************************************************************)
session_retrieve ==
    /\ pc \in {"Start", "Session"}
    /\ \E q \in Queries :
          /\ lastq' = q
          /\ data' = retrieve_params(data, q)
    /\ sent' = data'
    /\ pc' = "Session"
    /\ UNCHANGED <<db, dir, page, count, in_try, exc, attempts, slept, lawyers,
                   idx, pause_counter, batch, ins, nlist, ndetail, npause,
                   rows0, address_tag, parsed>>

SessionNext == session_retrieve

SessionSpec == Init /\ [][SessionNext]_vars

(***************************************************************************)
(* parse_address on its own (lines 228-257): called once on any address    *)
(* block.                                                                  *)
(***************************************************************************)
AddrInit ==
    /\ address_tag \in AddressBlocks
    /\ parsed = NotParsed
    /\ db = NoTable
    /\ dir = <<>>
    /\ rows0 = 0
    /\ pc = "Start"
    /\ page = 0
    /\ count = 0
    /\ in_try = FALSE
    /\ exc = None
    /\ data = InitData
    /\ lastq = Query("", 0)
    /\ sent = InitData
    /\ attempts = 0
    /\ slept = 0
    /\ lawyers = <<>>
    /\ idx = 0
    /\ pause_counter = 0
    /\ batch = <<>>
    /\ ins = 0
    /\ nlist = 0
    /\ ndetail = 0
    /\ npause = 0

parse_address_call ==
    /\ pc = "Start"
    /\ parsed' = parse_address(TagOf(address_tag))
    /\ pc' = "Parsed"
    /\ UNCHANGED <<db, dir, page, count, in_try, exc, data, lastq, sent,
                   attempts, slept, lawyers, idx, pause_counter, batch, ins,
                   nlist, ndetail, npause, rows0, address_tag>>

AddrNext == parse_address_call

AddrSpec == AddrInit /\ [][AddrNext]_vars

(***************************************************************************)
(* Properties.                                                             *)
(***************************************************************************)
BarNumbers(d) == {d.rows[i].bar_number : i \in 1..Len(d.rows)}

RowsOf(d, b) == {i \in 1..Len(d.rows) : d.rows[i].bar_number = b}

\* A step that is one call of insert_attorney by main.
InsertCall == pc = "insert" /\ pc' = "insert" /\ ins' = ins + 1

\* C1: a call of insert_attorney for a bar_number the table already holds
\* changes nothing in the table, whatever the other fields and the page of
\* the call are; a call for a new bar_number appends the row of that call;
\* after either, the table holds exactly one row for the bar_number.
C1_FirstSeenWins ==
    [][InsertCall =>
          LET a == batch[ins + 1]
              b == a.bar_number
          IN  /\ Cardinality(RowsOf(db', b)) = 1
              /\ RowsOf(db, b) # {} => db' = db
              /\ RowsOf(db, b) = {} => db'.rows = Append(db.rows, Row(a, page))
      ]_vars

\* The last call inserted a bar_number that page 0 had stored with other
\* field values and another page ordinal; the row is the one of page 0.
C1_Witness ==
    /\ pc = "insert"
    /\ ins > 0
    /\ rows0 = 0
    /\ page > 0
    /\ \E i \in 1..Len(db.rows) :
          /\ db.rows[i].bar_number = batch[ins].bar_number
          /\ db.rows[i].page = 0
          /\ db.rows[i].telephone # batch[ins].telephone
          /\ db.rows[i] # Row(batch[ins], page)

\* C2: the table never holds two rows with the same bar_number.
C2_UniqueBarNumber ==
    \A i, j \in 1..Len(db.rows) :
        db.rows[i].bar_number = db.rows[j].bar_number => i = j

\* A page that repeats an attorney of an earlier page has been inserted in
\* full.
C2_Witness ==
    /\ pc = "insert"
    /\ ins = Len(batch)
    /\ page > 0
    /\ rows0 = 0
    /\ count > Len(db.rows)
    /\ Len(db.rows) > 1

\* The table after an uninterrupted run of main from page 0 over the pages
\* of dir, computed page by page and attorney by attorney.
RECURSIVE InsertAll(_, _, _, _)
InsertAll(d, entries, p, i) ==
    IF i > Len(entries) THEN d
    ELSE InsertAll(
             insert_attorney(
                 d, Attorney(entries[i], DetailPage(DetailUrl(entries[i]))), p),
             entries, p, i + 1)

RECURSIVE RunPages(_, _)
RunPages(d, p) ==
    IF p >= Len(dir) \/ Len(dir[p + 1]) = 0 THEN d
    ELSE RunPages(InsertAll(d, dir[p + 1], p, 1), p + 1)

\* The bar numbers the first n pages of dir store, in a table without rows.
BarsOfPages(n) ==
    UNION {{dir[p][i].bar : i \in 1..Len(dir[p])} : p \in 1..n}

FirstEmpty(d) ==
    CHOOSE p \in 0..(Len(d) - 1) :
        /\ Len(d[p + 1]) = 0
        /\ \A q \in 0..(p - 1) : Len(d[q + 1]) > 0

RECURSIVE EntriesBefore(_, _)
EntriesBefore(d, p) ==
    IF p = 0 THEN 0 ELSE EntriesBefore(d, p - 1) + Len(d[p])

\* C4: listing pages are asked for in the order 0, 1, 2, ...; when parse
\* returns an empty batch the next step of the run ends it in Done, with no
\* fetch and no insert; a run that is Done has fetched the pages up to the
\* first empty one and no page after it, and one detail page per entry of
\* the pages before it.
C4_StopsAtFirstEmptyPage ==
    /\ [](pc = "post" => page = nlist)
    /\ [](pc = "Done" =>
            /\ Len(dir) = page + 1
            /\ FirstEmpty(dir) = page
            /\ nlist = page + 1
            /\ ndetail = EntriesBefore(dir, page))
    /\ [][(pc = "extract" /\ Len(lawyers) = 0 /\ pc' # "Start") =>
             (pc' = "Done" /\ UNCHANGED <<db, dir, page, nlist, ndetail>>)
         ]_vars
    /\ [][pc = "Done" => pc' \in {"Done", "Start"}]_vars

\* A first run ended in Done on an empty page that follows pages with
\* entries.
C4_Witness ==
    /\ pc = "Done"
    /\ page > 0
    /\ rows0 = 0
    /\ Len(db.rows) > 0

\* The attorneys of the first n entries of lawyers, in page order.
Extracted(n) ==
    [i \in 1..n |-> Attorney(lawyers[i], DetailPage(DetailUrl(lawyers[i])))]

\* C5: a failed attempt of a listing or detail request changes nothing but
\* the attempt count and the sleep of RETRY_SECONDS: the run stays at the
\* same request and is not ended; extract has yielded exactly one attorney
\* for each entry it is past, in page order; and when the transport answers
\* a request that is repeated for ever, every request is answered.
C5_TransportRetried ==
    /\ [][attempts' > attempts =>
             /\ pc' = pc
             /\ pc \in {"post", "get"}
             /\ slept' = RETRY_SECONDS
             /\ UNCHANGED <<db, dir, page, count, in_try, exc, data, lastq,
                            sent, lawyers, idx, pause_counter, batch, ins,
                            nlist, ndetail, npause, rows0>>
         ]_vars
    /\ [](pc \in {"extract", "get"} => batch = Extracted(idx))
    /\ (pc = "post") ~> (pc # "post")
    /\ (pc = "get") ~> (pc # "get")

\* The detail request of an entry failed, was repeated and was answered,
\* and the entry's attorney has been yielded.
C5_Witness ==
    /\ pc = "extract"
    /\ idx > 0
    /\ attempts > 0
    /\ Len(batch) = idx
    /\ batch[idx].bar_number = lawyers[idx].bar

PaginationFields == {"Page", "Prev", "Next", "MaxNumber", "ButtonName"}

\* C6: the form data a retrieve call sends is what a new session sends for
\* the same arguments; a request for page 0 carries no pagination field and
\* a request for a later page carries them all.
C6_HistoryIndependent ==
    pc = "Session" =>
        /\ sent = retrieve_params(InitData, lastq)
        /\ lastq.page = 0 => PaginationFields \cap DOMAIN sent = {}
        /\ lastq.page > 0 => PaginationFields \subseteq DOMAIN sent

\* The elements an entry must have to be usable.
Required == {"family-name", "detail-link"}
Usable(lawyer) == lawyer.missing \cap Required = {}

\* The entries of a page that are usable, in page order.
RECURSIVE UsableOf(_)
UsableOf(entries) ==
    IF Len(entries) = 0 THEN <<>>
    ELSE (IF Usable(Head(entries)) THEN <<Head(entries)>> ELSE <<>>)
             \o UsableOf(Tail(entries))

\* C7: an entry without a family name or without a detail link raises
\* nothing and ends neither the page nor the run; when extract is
\* exhausted, the batch holds the attorneys of the usable entries of the
\* page, in page order.
C7_MalformedEntryDropped ==
    /\ exc \notin {"AttributeError: lname", "TypeError: detail_url"}
    /\ (pc = "extract" /\ idx = Len(lawyers)) =>
           LET u == UsableOf(lawyers)
           IN  batch = [i \in 1..Len(u) |->
                           Attorney(u[i], DetailPage(DetailUrl(u[i])))]

\* The elements an entry may lack and still give a record.
Optional ==
    {"honorific-prefix", "honorific-suffix", "additional-name", "tel",
     "address", "h5"}

\* C8: an entry that lacks only optional elements raises nothing: once
\* extract is past it, its attorney is in the batch.
C8_OptionalDegrades ==
    /\ exc \notin {"AttributeError: prefix", "AttributeError: suffix",
                   "AttributeError: firm"}
    /\ pc \in {"extract", "get"} =>
           \A i \in 1..idx :
               lawyers[i].missing \subseteq Optional =>
                   batch[i].bar_number = lawyers[i].bar

\* The exceptions that a listing entry's markup raises in extract.
RecordParseFailures ==
    {"TypeError: detail_url", "AttributeError: prefix",
     "AttributeError: lname", "AttributeError: suffix",
     "AttributeError: firm"}

\* C9: a run that an exception ended was ended by an exception that is no
\* parse failure of a listing entry; the table then holds the bar numbers
\* of every page before the one in progress.
C9_FatalContainment ==
    pc \in {"Failed", "Uncaught"} =>
        /\ exc # None
        /\ exc \notin RecordParseFailures
        /\ BarsOfPages(page) \subseteq BarNumbers(db)

\* C10: whenever a detail page is about to be requested, the run has
\* paused once for every PAUSE_MAX detail pages it has received, counted
\* over the whole run.
C10_ThrottleCadence ==
    pc = "get" => npause = ndetail \div PAUSE_MAX

\* text has no whitespace at either end.
Stripped(text) == strip(text) = text

\* C11: for a block "street" / "city, state<NBSP>zip", parse_address
\* returns exactly street, city, state and zip, none with whitespace at
\* either end; for a block whose second line has no comma it returns the
\* street and the city, and an empty state and zip.
C11_AddressFields ==
    pc = "Parsed" =>
        /\ parsed.isdict
        /\ parsed.street = address_tag.street
        /\ parsed.city = address_tag.city
        /\ parsed.state = address_tag.state
        /\ parsed.zip = address_tag.zip
        /\ \A f \in {"street", "city", "state", "zip"} : Stripped(parsed[f])

\* C12: when the detail page of an entry is about to be requested, the
\* table holds a row for every earlier entry of the page; and when an
\* exception has ended the run at an entry of the page, the table holds a
\* row for every entry of the page before it.
C12_RecordAtATime ==
    /\ pc = "get" =>
           \A i \in 1..idx : lawyers[i].bar \in BarNumbers(db)
    /\ (pc \in {"Failed", "Uncaught"} /\ idx < Len(lawyers)) =>
           \A i \in 1..idx : lawyers[i].bar \in BarNumbers(db)

====
